---- MODULE Spec2Model ----
(***************************************************************************)
(* A model of linetools/spectralline.py: the SpectralLine / AbsLine        *)
(* entity, the window extraction (cut_spec), the equivalent-width and      *)
(* AODM measurements, the Voigt profile entry point, ismatch and the bulk  *)
(* constructor many_abslines.                                              *)
(*                                                                         *)
(* Numbers.  Wavelengths are integers in units of 0.01 Angstrom, redshifts *)
(* integers in units of 1e-8, velocities integers in km/s, sky positions   *)
(* declinations in milli-arcseconds on one meridian (so that a separation  *)
(* is the absolute difference).  A Python dict is a record over all the    *)
(* keys the code ever uses.  A key that a constructed line may lack        *)
(* (pix, sigEW, sigN, logN, sig_logN; velo and conti of the spectrum)      *)
(* holds Absent while it is not in the dict and Some(v) once it is.  An    *)
(* exception is the pair <<type, message>>; NoError is the empty tuple.    *)
(***************************************************************************)
EXTENDS Integers, Sequences, FiniteSets, TLC

VARIABLES
    llist,      \* the shared LineList object: its mutable attribute closest
    spectrum,   \* the shared spectrum object (XSpectrum1D)
    line,       \* the line under study: Null, or an AbsLine
    res,        \* what the last call did: its name, its exception, its result
    all_wrest,  \* many_abslines: the input sequence of rest wavelengths
    heap,       \* many_abslines: the dict objects, by identity
    abs_lines,  \* many_abslines: the returned list (or its exception)
    lookups,    \* many_abslines: the keys handed to llist[...], in order
    written,    \* many_abslines: the entity the last write went to
    lines,      \* concurrent cut_spec: the line of each thread
    pc,         \* concurrent cut_spec: where each thread stands
    loc         \* concurrent cut_spec: each thread's local variables

vars == <<llist, spectrum, line, res, all_wrest, heap, abs_lines, lookups,
          written, lines, pc, loc>>

singleVars == <<llist, spectrum, line, res>>
bulkVars == <<all_wrest, heap, abs_lines, lookups, written>>
concVars == <<lines, pc, loc>>

----------------------------------------------------------------------------
(* Values *)

\* no line (yet): a record, as a line is
Null == [ltype |-> "Null"]
None == "None"
Absent == <<>>
Some(v) == <<v>>
NoError == <<>>
ValueError(msg) == <<"ValueError", msg>>

Abs(x) == IF x < 0 THEN -x ELSE x


----------------------------------------------------------------------------
(* The reference line list (linetools.lists.linelist.LineList) *)

\* The catalogued transitions: wrest in 0.01 A, f in 1e-4
Catalog ==
    { [name |-> "HI 1215", wrest |-> 121567, Z |-> 1, ion |-> 1, f |-> 4164],
      [name |-> "SiIII 1206", wrest |-> 120650, Z |-> 14, ion |-> 3, f |-> 16300] }

CatalogWrest == {e.wrest : e \in Catalog}

\* llist[trans] for a wavelength: the exact match, or with closest the
\* nearest catalogued transition
Closest(trans) ==
    CHOOSE e \in Catalog :
        \A o \in Catalog : Abs(e.wrest - trans) <= Abs(o.wrest - trans)

LineListGet(ll, trans) ==
    IF trans \in CatalogWrest
    THEN [err |-> NoError, row |-> CHOOSE e \in Catalog : e.wrest = trans]
    ELSE IF ll.closest
    THEN [err |-> NoError, row |-> Closest(trans)]
    ELSE [err |-> <<"KeyError", "TransitionNotFound">>, row |-> Absent]

----------------------------------------------------------------------------
(* The spectrum (linetools.spectra.xspectrum1d.XSpectrum1D) *)

Dispersion == <<120400, 121000, 121600, 122200, 122800>>
Flux == <<60, 24, 0, 60, 30>>
Sig == <<6, 6, 6, 12, 6>>
Conti == <<3, 3, 2, 3, 3>>
Pixels == DOMAIN Dispersion

\* wcs.unit: the unit of the dispersion axis, 1 when it has none
UnitAA == "AA"
Unitless == "1"

NewSpectrum(unit, hasConti) ==
    [unit |-> unit, dispersion |-> Dispersion, flux |-> Flux, sig |-> Sig,
     conti |-> IF hasConti THEN Some(Conti) ELSE Absent,
     velo |-> Absent]

\* wrest*(1 + z): the redshifted rest wavelength, on the 0.01 A grid
ObsWave(wrest, z) == wrest + (wrest * (z \div 1000)) \div 100000

\* the speed of light in km/s
CKms == 299792

\* spec.relative_vel(wv): the velocity of every pixel relative to wv
relative_vel(sp, wv) ==
    [i \in DOMAIN sp.dispersion |-> (CKms * (sp.dispersion[i] - wv)) \div wv]

\* spec.pix_minmax(wvlim)[0]: the pixels inside a wavelength interval
pix_minmax_wave(sp, wvlim) ==
    {i \in DOMAIN sp.dispersion :
        wvlim[1] <= sp.dispersion[i] /\ sp.dispersion[i] <= wvlim[2]}

\* spec.pix_minmax(z, wrest, vlim)[0]: the pixels inside a velocity interval
\* about the redshifted rest wavelength
pix_minmax_vel(sp, z, wrest, vlim) ==
    LET v == relative_vel(sp, ObsWave(wrest, z))
    IN  {i \in DOMAIN sp.dispersion : vlim[1] <= v[i] /\ v[i] <= vlim[2]}

\* a[pix]: the slice of an array at a set of pixels
Slice(a, pix) == [i \in pix |-> a[i]]

----------------------------------------------------------------------------
(* SpectralLine.__init__ and AbsLine.fill_data *)

InitAnaly ==
    [spec |-> None, wvlim |-> <<0, 0>>, vlim |-> <<0, 0>>, do_analysis |-> 1,
     pix |-> Absent, flg_eye |-> Absent, flg_limit |-> Absent,
     datafile |-> Absent, name |-> Absent]

InitAttrib(z) ==
    [coord |-> 0, z |-> z, zsig |-> 0, v |-> 0, vsig |-> 0,
     EW |-> 0, EWsig |-> 0, flgEW |-> 0,
     N |-> Absent, Nsig |-> Absent, flagN |-> Absent,
     b |-> Absent, bsig |-> Absent,
     sigEW |-> Absent, sigN |-> Absent, logN |-> Absent, sig_logN |-> Absent]

\* fill_data: sets llist.closest, looks the transition up, fills data, wrest,
\* trans and the absorption-line defaults.  Returns the exception (if any),
\* the line list as left behind and the line.
fill_data(self, trans, ll, closest) ==
    LET ll2 == [ll EXCEPT !.closest = closest]
        got == LineListGet(ll2, trans)
    IN  IF got.err # NoError
        THEN [err |-> got.err, llist |-> ll2, line |-> Null]
        ELSE [err |-> NoError, llist |-> ll2,
              line |->
                [self EXCEPT
                    !.data = got.row,
                    !.wrest = got.row.wrest,
                    !.trans = got.row.name,
                    !.analy = [@ EXCEPT !.flg_eye = 0,
                                        !.flg_limit = 0,
                                        !.datafile = "",
                                        !.name = got.row.name],
                    !.attrib = [@ EXCEPT !.N = 0, !.Nsig = 0, !.flagN = 0,
                                         !.b = 0, !.bsig = 0]]]

\* AbsLine(trans, linelist=ll, closest=closest, z=z)
AbsLine(trans, ll, closest, z) ==
    fill_data([ltype |-> "Abs", data |-> Absent, wrest |-> Absent,
               trans |-> Absent, analy |-> InitAnaly, attrib |-> InitAttrib(z)],
              trans, ll, closest)

----------------------------------------------------------------------------
(* SpectralLine.cut_spec *)

ErrNeedSpectrum == ValueError("spectralline.cut_spec: Need to set spectrum!")
ErrNeedUnit == ValueError("Expecting a unit!")
ErrNeedWindow == ValueError("spectralline.cut_spec: Need to set wvlim or vlim!")

\* np.sum(wvlim.value > 0.): how many bounds of the interval are positive
NumPositive(w) == Cardinality({i \in DOMAIN w : w[i] > 0})
\* np.sum(np.abs(vlim.value) > 0.): how many bounds are not zero
NumNonZero(w) == Cardinality({i \in DOMAIN w : Abs(w[i]) > 0})

\* cut_spec_pix with the velocity interval tried before the wavelength
\* interval
cut_spec_pix_velfirst(ln, sp) ==
    IF ln.analy.spec = None
    THEN [err |-> ErrNeedSpectrum, pix |-> {}]
    ELSE IF sp.unit = Unitless
    THEN [err |-> ErrNeedUnit, pix |-> {}]
    ELSE IF NumNonZero(ln.analy.vlim) # 0
    THEN [err |-> NoError,
          pix |-> pix_minmax_vel(sp, ln.attrib.z, ln.wrest, ln.analy.vlim)]
    ELSE IF NumPositive(ln.analy.wvlim) # 0
    THEN [err |-> NoError, pix |-> pix_minmax_wave(sp, ln.analy.wvlim)]
    ELSE [err |-> ErrNeedWindow, pix |-> {}]

\* lines 147-161: the checks and the choice of the pixels
cut_spec_pix(ln, sp) ==
    IF ln.analy.spec = None
    THEN [err |-> ErrNeedSpectrum, pix |-> {}]
    ELSE IF sp.unit = Unitless
    THEN [err |-> ErrNeedUnit, pix |-> {}]
    ELSE IF NumPositive(ln.analy.wvlim) # 0
    THEN [err |-> NoError, pix |-> pix_minmax_wave(sp, ln.analy.wvlim)]
    ELSE IF NumNonZero(ln.analy.vlim) # 0
    THEN [err |-> NoError,
          pix |-> pix_minmax_vel(sp, ln.attrib.z, ln.wrest,
                                 ln.analy.vlim)]
    ELSE [err |-> ErrNeedWindow, pix |-> {}]


\* lines 164-167: flux, error and wavelength at the pixels
cut_spec_slices(sp, pix) ==
    [fx |-> Slice(sp.flux, pix), sig |-> Slice(sp.sig, pix),
     wave |-> Slice(sp.dispersion, pix)]

\* lines 169-171: the velocity array, relative to this line, is stored on the
\* spectrum object
cut_spec_set_velo(ln, sp) ==
    [sp EXCEPT !.velo = Some(relative_vel(sp, ObsWave(ln.wrest, ln.attrib.z)))]

\* line 172: the velocities are read back from the spectrum object
cut_spec_get_velo(sp, pix) == Slice(sp.velo[1], pix)

\* cut_spec_normalize without the else branch of line 181: only the flux is
\* divided
cut_spec_normalize_fx_only(sp, pix, fx, sig, normalize) ==
    IF normalize /\ sp.conti # Absent
    THEN [fx |-> [i \in pix |-> fx[i] \div sp.conti[1][i]], sig |-> sig]
    ELSE [fx |-> fx, sig |-> sig]

\* lines 174-181: fx / conti raises AttributeError when the spectrum has no
\* continuum, which is passed over; sig is divided in the else branch
cut_spec_normalize(sp, pix, fx, sig, normalize) ==
    IF normalize /\ sp.conti # Absent
    THEN [fx |-> [i \in pix |-> fx[i] \div sp.conti[1][i]],
          sig |-> [i \in pix |-> sig[i] \div sp.conti[1][i]]]
    ELSE [fx |-> fx, sig |-> sig]

\* cut_spec(self, normalize): the exception, the line and the spectrum as left
\* behind, and the returned (fx, sig, dict(wave, velo))
cut_spec(ln, sp, normalize) ==
    LET sel == cut_spec_pix(ln, sp)
    IN  IF sel.err # NoError
        THEN [err |-> sel.err, line |-> ln, spectrum |-> sp, ret |-> Absent]
        ELSE LET ln2 == [ln EXCEPT !.analy.pix = Some(sel.pix)]
                 sl == cut_spec_slices(sp, sel.pix)
                 sp2 == cut_spec_set_velo(ln2, sp)
                 velo == cut_spec_get_velo(sp2, sel.pix)
                 nm == cut_spec_normalize(sp2, sel.pix, sl.fx, sl.sig, normalize)
             IN  [err |-> NoError, line |-> ln2, spectrum |-> sp2,
                  ret |-> [fx |-> nm.fx, sig |-> nm.sig, wave |-> sl.wave,
                           velo |-> velo]]

----------------------------------------------------------------------------
(* SpectralLine.measure_ew, measure_restew *)

ErrBadEWFlag == ValueError("measure_ew: Not ready for this flag")

\* measure_ew(self, flg): est is what the estimator (lau.box_ew for flg 1,
\* lau.gaussian_ew for flg 2) returns, <<EW, sigEW>>
measure_ew(ln, sp, flg, est) ==
    LET cut == cut_spec(ln, sp, TRUE)
    IN  IF cut.err # NoError
        THEN [err |-> cut.err, line |-> cut.line, spectrum |-> cut.spectrum]
        ELSE IF flg \notin {1, 2}
        THEN [err |-> ErrBadEWFlag, line |-> cut.line, spectrum |-> cut.spectrum]
        ELSE [err |-> NoError,
              line |-> [cut.line EXCEPT !.attrib.EW = est[1],
                                         !.attrib.sigEW = Some(est[2])],
              spectrum |-> cut.spectrum]

\* x / (z + 1), with 1 + z to five decimals
RestFrame(x, z) == (x * 100000) \div (100000 + z \div 1000)

\* measure_restew(self, flg): measure_ew, then both values pushed to the rest
\* frame
measure_restew(ln, sp, flg, est) ==
    LET m == measure_ew(ln, sp, flg, est)
    IN  IF m.err # NoError
        THEN m
        ELSE [m EXCEPT
                !.line.attrib.EW = RestFrame(@, m.line.attrib.z),
                !.line.attrib.sigEW = Some(RestFrame(@[1], m.line.attrib.z))]

----------------------------------------------------------------------------
(* AbsLine.measure_aodm *)

RECURSIVE ILog10(_)
ILog10(n) == IF n < 10 THEN 0 ELSE 1 + ILog10(n \div 10)

\* laa.log_clm(attrib): log10(N) and its error sigN / (N ln 10), in 0.001 dex;
\* both 0 when N <= 0
log_clm(attrib) ==
    IF attrib.N <= 0
    THEN <<0, 0>>
    ELSE <<1000 * ILog10(attrib.N), (434 * attrib.sigN[1]) \div attrib.N>>

\* aodm_flag with the detection test ahead of the saturation test
aodm_flag_detection_first(N, sigN, flg_sat, nsig) ==
    IF N > nsig * sigN THEN 1
    ELSE IF flg_sat THEN 2
    ELSE 3

\* lines 371-378: the flag from the estimator's outputs
aodm_flag(N, sigN, flg_sat, nsig) ==
    IF flg_sat THEN 2
    ELSE IF N > nsig * sigN THEN 1
    ELSE 3

\* measure_aodm(self, nsig): est is what laa.aodm returns, [N, sigN, flg_sat]
measure_aodm(ln, sp, nsig, est) ==
    LET cut == cut_spec(ln, sp, TRUE)
    IN  IF cut.err # NoError
        THEN [err |-> cut.err, line |-> cut.line, spectrum |-> cut.spectrum]
        ELSE LET a1 == [cut.line.attrib EXCEPT
                            !.flagN = aodm_flag(est.N, est.sigN, est.flg_sat, nsig),
                            !.N = est.N,
                            !.sigN = Some(est.sigN)]
                 lg == log_clm(a1)
             IN  [err |-> NoError,
                  line |-> [cut.line EXCEPT
                              !.attrib = [a1 EXCEPT !.logN = Some(lg[1]),
                                                    !.sig_logN = Some(lg[2])]],
                  spectrum |-> cut.spectrum]

----------------------------------------------------------------------------
(* AbsLine.generate_voigt *)

ErrNeedN == ValueError("Need to initialize log column density in attrib['N']")
ErrNeedB == ValueError("Need to initialize Doppler parameter in attrib['b']")
\* line 345 raises a str, which Python refuses with a TypeError of its own
ErrRaiseStr == <<"TypeError", "exceptions must derive from BaseException">>

\* generate_voigt(self, wave): wave is Absent for None; the result is the
\* wavelength grid handed to lav.voigt_from_abslines
generate_voigt(ln, sp, wave) ==
    IF ln.attrib.N < 1 THEN [err |-> ErrNeedN, grid |-> Absent]
    ELSE IF ln.attrib.b < 1 THEN [err |-> ErrNeedB, grid |-> Absent]
    ELSE IF wave # Absent THEN [err |-> NoError, grid |-> wave]
    ELSE IF ln.analy.spec = None THEN [err |-> ErrRaiseStr, grid |-> Absent]
    ELSE [err |-> NoError, grid |-> Some(sp.dispersion)]

----------------------------------------------------------------------------
(* SpectralLine.ismatch *)

ErrBadInput == ValueError("ismatch: Bad input")

\* np.allclose(a, b, rtol=1/rtolInv, atol=atol): |a - b| <= atol + rtol*|b|,
\* exact for integers a, b, atol
allclose(a, b, rtolInv, atol) == Abs(a - b) <= atol + (Abs(b) \div rtolInv)

\* SepBelowTenth with <= for <
SepAtMostTenth(c1, c2) == Abs(c1 - c2) <= 100

\* coord.separation(other) < 0.1 arcsec, in milli-arcseconds
SepBelowTenth(c1, c2) == Abs(c1 - c2) < 100

\* ismatch(self, inp, Zion, RADec).  inp is [kind |-> "line", line |-> l],
\* [kind |-> "tuple", z |-> z, wrest |-> w] or anything else; Zion and RADec
\* are Absent for None.  Wavelengths: numpy's default rtol 1e-5, and its
\* default atol 1e-8 A, which is nothing on the 0.01 A grid.  Redshifts:
\* rtol 1e-6 and the default atol 1e-8, one unit.
ismatch(ln, inp, Zion, RADec) ==
    IF inp.kind \notin {"line", "tuple"}
    THEN [err |-> ErrBadInput, answer |-> FALSE]
    ELSE
    LET isLine == inp.kind = "line"
        wrest == IF isLine THEN inp.line.wrest ELSE inp.wrest
        z == IF isLine THEN inp.line.attrib.z ELSE inp.z
        zion == IF isLine /\ Zion = Absent
                THEN Some(<<inp.line.data.Z, inp.line.data.ion>>)
                ELSE Zion
        coord == IF isLine /\ RADec = Absent
                 THEN Some(inp.line.attrib.coord)
                 ELSE RADec
        a0 == allclose(ln.wrest, wrest, 100000, 0)
              /\ allclose(ln.attrib.z, z, 1000000, 1)
        a1 == IF zion # Absent
              THEN a0 /\ ln.data.Z = zion[1][1] /\ ln.data.ion = zion[1][2]
              ELSE a0
        a2 == IF coord # Absent
              THEN a1 /\ SepBelowTenth(coord[1], ln.attrib.coord)
              ELSE a1
    IN  [err |-> NoError, answer |-> a2]


----------------------------------------------------------------------------
(* One line, the shared line list and the shared spectrum: the calls *)

Result(op, err, out) == [op |-> op, err |-> err, out |-> out]

\* the handle a line keeps in analy['spec'] for the shared spectrum
TheSpec == "spec"

\* line = AbsLine(trans, linelist=llist, closest=closest, z=z)
Construct(trans, closest, z) ==
    /\ line = Null
    /\ LET r == AbsLine(trans, llist, closest, z)
       IN  /\ llist' = r.llist
           /\ line' = r.line
           /\ res' = Result("construct", r.err, <<trans, closest, z>>)
    /\ UNCHANGED <<spectrum, bulkVars, concVars>>

\* line.analy['wvlim'] = w
SetWvlim(w) ==
    /\ line # Null
    /\ line' = [line EXCEPT !.analy.wvlim = w]
    /\ res' = Result("set_wvlim", NoError, <<>>)
    /\ UNCHANGED <<llist, spectrum, bulkVars, concVars>>

\* line.analy['vlim'] = v
SetVlim(v) ==
    /\ line # Null
    /\ line' = [line EXCEPT !.analy.vlim = v]
    /\ res' = Result("set_vlim", NoError, <<>>)
    /\ UNCHANGED <<llist, spectrum, bulkVars, concVars>>

\* line.analy['spec'] = s
AttachSpec(s) ==
    /\ line # Null
    /\ line' = [line EXCEPT !.analy.spec = s]
    /\ res' = Result("set_spec", NoError, <<>>)
    /\ UNCHANGED <<llist, spectrum, bulkVars, concVars>>

\* SetZ that also rescales the stored equivalent width to the new redshift
SetZRescalingEW(z) ==
    /\ line # Null
    /\ line' = [line EXCEPT !.attrib.z = z,
                            !.attrib.EW = RestFrame(@, z)]
    /\ res' = Result("set_z", NoError, <<>>)
    /\ UNCHANGED <<llist, spectrum, bulkVars, concVars>>

\* line.attrib['z'] = z
SetZ(z) ==
    /\ line # Null
    /\ line' = [line EXCEPT !.attrib.z = z]
    /\ res' = Result("set_z", NoError, <<>>)
    /\ UNCHANGED <<llist, spectrum, bulkVars, concVars>>

\* line.attrib['b'] = b
SetB(b) ==
    /\ line # Null
    /\ line' = [line EXCEPT !.attrib.b = b]
    /\ res' = Result("set_b", NoError, <<>>)
    /\ UNCHANGED <<llist, spectrum, bulkVars, concVars>>

\* line.attrib['N'] = n
SetN(n) ==
    /\ line # Null
    /\ line' = [line EXCEPT !.attrib.N = n]
    /\ res' = Result("set_N", NoError, <<>>)
    /\ UNCHANGED <<llist, spectrum, bulkVars, concVars>>

\* line.attrib['coord'] = c
SetCoord(c) ==
    /\ line # Null
    /\ line' = [line EXCEPT !.attrib.coord = c]
    /\ res' = Result("set_coord", NoError, <<>>)
    /\ UNCHANGED <<llist, spectrum, bulkVars, concVars>>

\* line.cut_spec(normalize=normalize)
CallCutSpec(normalize) ==
    /\ line # Null
    /\ LET r == cut_spec(line, spectrum, normalize)
       IN  /\ line' = r.line
           /\ spectrum' = r.spectrum
           /\ res' = Result("cut_spec", r.err,
                            [normalize |-> normalize, ret |-> r.ret])
    /\ UNCHANGED <<llist, bulkVars, concVars>>

\* line.measure_ew(flg=flg)
CallMeasureEW(flg, est) ==
    /\ line # Null
    /\ LET r == measure_ew(line, spectrum, flg, est)
       IN  /\ line' = r.line
           /\ spectrum' = r.spectrum
           /\ res' = Result("measure_ew", r.err, [flg |-> flg, est |-> est])
    /\ UNCHANGED <<llist, bulkVars, concVars>>

\* line.measure_restew(flg=flg)
CallMeasureRestEW(flg, est) ==
    /\ line # Null
    /\ LET r == measure_restew(line, spectrum, flg, est)
       IN  /\ line' = r.line
           /\ spectrum' = r.spectrum
           /\ res' = Result("measure_restew", r.err, [flg |-> flg, est |-> est])
    /\ UNCHANGED <<llist, bulkVars, concVars>>

\* line.measure_aodm(nsig=nsig)
CallMeasureAODM(nsig, est) ==
    /\ line # Null
    /\ LET r == measure_aodm(line, spectrum, nsig, est)
       IN  /\ line' = r.line
           /\ spectrum' = r.spectrum
           /\ res' = Result("measure_aodm", r.err, [nsig |-> nsig, est |-> est])
    /\ UNCHANGED <<llist, bulkVars, concVars>>

\* line.generate_voigt(wave=wave)
CallGenerateVoigt(wave) ==
    /\ line # Null
    /\ LET r == generate_voigt(line, spectrum, wave)
       IN  res' = Result("generate_voigt", r.err,
                         [wave |-> wave, grid |-> r.grid])
    /\ UNCHANGED <<llist, spectrum, line, bulkVars, concVars>>

\* line.ismatch(inp, Zion=Zion, RADec=RADec)
CallIsMatch(inp, Zion, RADec) ==
    /\ line # Null
    /\ LET r == ismatch(line, inp, Zion, RADec)
       IN  res' = Result("ismatch", r.err,
                         [inp |-> inp, Zion |-> Zion, RADec |-> RADec,
                          answer |-> r.answer])
    /\ UNCHANGED <<llist, spectrum, line, bulkVars, concVars>>

----------------------------------------------------------------------------
(* The inputs *)

MaxN == 2
MaxSigN == 1
MaxNsig == 2

\* redshifts 0 and 0.01
ZSet == {0, 1000000}
\* a catalogued wavelength and one 0.03 A off it
TransSet == {121567, 121570}
WvlimSet == {<<0, 0>>, <<120900, 121700>>}
VlimSet == {<<0, 0>>, <<-2000, 0>>, <<-2000, 2000>>}
SpecHandles == {None, TheSpec}
BSet == {0, 10}
WaveArgs == {Absent, Some(<<121000, 121300>>)}
EWFlags == {1, 2, 3}
EWOutputs == {<<202, 101>>}
AODMOutputs ==
    [N : -1..MaxN, sigN : 0..MaxSigN, flg_sat : BOOLEAN]
NsigSet == 0..MaxNsig

UnusedBulk ==
    /\ all_wrest = <<>>
    /\ heap = <<>>
    /\ abs_lines = [called |-> FALSE, err |-> NoError, list |-> <<>>]
    /\ lookups = <<>>
    /\ written = [last |-> 0, count |-> 0]

UnusedConc ==
    /\ lines = <<>>
    /\ pc = <<>>
    /\ loc = <<>>

Init ==
    /\ llist \in [closest : BOOLEAN]
    /\ spectrum \in {NewSpectrum(u, c) : u \in {UnitAA, Unitless}, c \in BOOLEAN}
    /\ line = Null
    /\ res = Result("init", NoError, <<>>)
    /\ UnusedBulk
    /\ UnusedConc

\* Window extraction
NextCut ==
    \/ \E t \in TransSet, c \in BOOLEAN, z \in ZSet : Construct(t, c, z)
    \/ \E w \in WvlimSet : SetWvlim(w)
    \/ \E v \in VlimSet : SetVlim(v)
    \/ \E s \in SpecHandles : AttachSpec(s)
    \/ \E z \in ZSet : SetZ(z)
    \/ \E n \in BOOLEAN : CallCutSpec(n)

SpecCut == Init /\ [][NextCut]_vars


\* Column density
NextAODM ==
    \/ \E z \in ZSet : Construct(121567, FALSE, z)
    \/ \E w \in WvlimSet : SetWvlim(w)
    \/ \E s \in SpecHandles : AttachSpec(s)
    \/ \E n \in NsigSet, e \in AODMOutputs : CallMeasureAODM(n, e)

SpecAODM == Init /\ [][NextAODM]_vars

\* Profile synthesis
NSet == {0, 1, 13}
BWideSet == {0, 1, 10}

NextVoigt ==
    \/ Construct(121567, FALSE, 0)
    \/ \E s \in SpecHandles : AttachSpec(s)
    \/ \E n \in NSet : SetN(n)
    \/ \E b \in BWideSet : SetB(b)
    \/ \E w \in WaveArgs : CallGenerateVoigt(w)

SpecVoigt == Init /\ [][NextVoigt]_vars

\* Matching.  Redshifts 0, 1e-8, 2e-8, 0.03, 0.03000004, 0.03000005;
\* wavelengths 1215.67, 1215.68, 1215.69 A; positions 0, 0.05, 0.1 arcsec
ZLineSet == {0, 3000000}
ZMatchSet == {0, 1, 2, 3000000, 3000004, 3000005}
WrestMatchSet == {121567, 121568, 121569}
CoordSet == {0, 100}
ZionArgs == {Absent, Some(<<1, 1>>), Some(<<14, 3>>)}
RADecArgs == {Absent, Some(50), Some(100)}

\* another line, as its owner left it
OtherLine(trans, z, coord) ==
    [AbsLine(trans, [closest |-> FALSE], FALSE, z).line
        EXCEPT !.attrib.coord = coord]

MatchInputs ==
    {[kind |-> "tuple", z |-> z, wrest |-> w] :
        z \in ZMatchSet, w \in WrestMatchSet}
    \cup {[kind |-> "line", line |-> OtherLine(t, z, c)] :
            t \in CatalogWrest, z \in {0, 3000004}, c \in CoordSet}
    \cup {[kind |-> "str"]}

NextMatch ==
    \/ \E z \in ZLineSet : Construct(121567, FALSE, z)
    \/ \E c \in CoordSet : SetCoord(c)
    \/ \E i \in MatchInputs, zi \in ZionArgs, rd \in RADecArgs :
          CallIsMatch(i, zi, rd)

SpecMatch == Init /\ [][NextMatch]_vars

\* Everything one line can be asked to do
Next ==
    \/ \E t \in TransSet, c \in BOOLEAN, z \in ZSet : Construct(t, c, z)
    \/ \E w \in WvlimSet : SetWvlim(w)
    \/ \E v \in {<<0, 0>>, <<-2000, 2000>>} : SetVlim(v)
    \/ \E s \in SpecHandles : AttachSpec(s)
    \/ \E z \in ZSet : SetZ(z)
    \/ \E b \in BSet : SetB(b)
    \/ \E n \in BOOLEAN : CallCutSpec(n)
    \/ \E f \in {1, 3}, e \in EWOutputs : CallMeasureEW(f, e)
    \/ \E e \in EWOutputs : CallMeasureRestEW(2, e)
    \/ CallMeasureAODM(MaxNsig, [N |-> MaxN, sigN |-> MaxSigN, flg_sat |-> FALSE])
    \/ \E w \in WaveArgs : CallGenerateVoigt(w)
    \/ \E z \in ZSet : CallIsMatch([kind |-> "tuple", z |-> z, wrest |-> 121567],
                                   Absent, Absent)

Spec == Init /\ [][Next]_vars

----------------------------------------------------------------------------
(* many_abslines *)

Range(s) == {s[i] : i \in DOMAIN s}

\* np.unique: the distinct values, in increasing order
RECURSIVE SortedSeq(_)
SortedSeq(S) ==
    IF S = {} THEN <<>>
    ELSE LET m == CHOOSE x \in S : \A y \in S : x <= y
         IN  <<m>> \o SortedSeq(S \ {m})

unique(ws) == SortedSeq(Range(ws))

\* An AbsLine object on the heap: its data, analy and attrib dicts are
\* objects of their own, held by reference
NewObject(ln, hp) ==
    [obj |-> [ltype |-> ln.ltype, wrest |-> ln.wrest, trans |-> ln.trans,
              data |-> Len(hp) + 1, analy |-> Len(hp) + 2,
              attrib |-> Len(hp) + 3],
     heap |-> hp \o <<ln.data, ln.analy, ln.attrib>>]

\* copy.copy: a new object that holds the same three dicts
shallowcopy(obj, hp) == [obj |-> obj, heap |-> hp]

\* copy.deepcopy: a new object with copies of the three dicts
deepcopy(obj, hp) ==
    [obj |-> [obj EXCEPT !.data = Len(hp) + 1, !.analy = Len(hp) + 2,
                         !.attrib = Len(hp) + 3],
     heap |-> hp \o <<hp[obj.data], hp[obj.analy], hp[obj.attrib]>>]

\* lines 428-431: one AbsLine (one lookup) per distinct value.
\* st = [llist, heap, lookups, adict, err]
RECURSIVE BuildProtos(_, _)
BuildProtos(uniq, st) ==
    IF uniq = <<>> \/ st.err # NoError THEN st
    ELSE LET r == AbsLine(Head(uniq), st.llist, FALSE, 0)
             st1 == [st EXCEPT !.llist = r.llist,
                               !.lookups = Append(@, Head(uniq))]
         IN  IF r.err # NoError
             THEN [st1 EXCEPT !.err = r.err]
             ELSE LET n == NewObject(r.line, st.heap)
                  IN  BuildProtos(Tail(uniq),
                        [st1 EXCEPT !.heap = n.heap,
                                    !.adict = (Head(uniq) :> n.obj) @@ @])

\* lines 434-436: a deep copy per input value, in input order.
\* acc = [heap, list]
RECURSIVE CopyAll(_, _, _)
CopyAll(ws, adict, acc) ==
    IF ws = <<>> THEN acc
    ELSE LET c == deepcopy(adict[Head(ws)], acc.heap)
         IN  CopyAll(Tail(ws), adict,
                     [heap |-> c.heap, list |-> Append(acc.list, c.obj)])

ErrIndex == <<"IndexError", "list index out of range">>

\* many_abslines(all_wrest, llist): ws are the values of all_wrest, which
\* share the unit of all_wrest[0]
many_abslines(ws, ll, hp) ==
    IF ws = <<>>
    THEN [err |-> ErrIndex, llist |-> ll, heap |-> hp, lookups |-> <<>>,
          list |-> <<>>]
    ELSE LET st == BuildProtos(unique(ws),
                     [llist |-> ll, heap |-> hp, lookups |-> <<>>,
                      adict |-> <<>>, err |-> NoError])
         IN  IF st.err # NoError
             THEN [err |-> st.err, llist |-> st.llist, heap |-> st.heap,
                   lookups |-> st.lookups, list |-> <<>>]
             ELSE LET c == CopyAll(ws, st.adict,
                                   [heap |-> st.heap, list |-> <<>>])
                  IN  [err |-> NoError, llist |-> st.llist, heap |-> c.heap,
                       lookups |-> st.lookups, list |-> c.list]

MaxLen == 3
MaxWrites == 3

RECURSIVE SeqsUpTo(_, _)
SeqsUpTo(S, n) ==
    IF n = 0 THEN {<<>>}
    ELSE LET shorter == SeqsUpTo(S, n - 1)
         IN  shorter \cup {Append(q, x) : q \in shorter, x \in S}

UnusedSingle ==
    /\ spectrum = NewSpectrum(UnitAA, TRUE)
    /\ line = Null
    /\ res = Result("init", NoError, <<>>)

InitBulk ==
    /\ llist \in [closest : BOOLEAN]
    /\ all_wrest \in SeqsUpTo(CatalogWrest, MaxLen)
    /\ heap = <<>>
    /\ abs_lines = [called |-> FALSE, err |-> NoError, list |-> <<>>]
    /\ lookups = <<>>
    /\ written = [last |-> 0, count |-> 0]
    /\ UnusedSingle
    /\ UnusedConc

\* abs_lines = many_abslines(all_wrest, llist)
CallManyAbslines ==
    /\ ~abs_lines.called
    /\ LET r == many_abslines(all_wrest, llist, heap)
       IN  /\ llist' = r.llist
           /\ heap' = r.heap
           /\ lookups' = r.lookups
           /\ abs_lines' = [called |-> TRUE, err |-> r.err, list |-> r.list]
    /\ UNCHANGED <<all_wrest, written, spectrum, line, res, concVars>>

CanWrite(i) ==
    /\ abs_lines.called
    /\ i \in DOMAIN abs_lines.list
    /\ written.count < MaxWrites

Wrote(i) == written' = [last |-> i, count |-> written.count + 1]

\* abs_lines[i].attrib['N'] = v
WriteAttribN(i, v) ==
    /\ CanWrite(i)
    /\ heap' = [heap EXCEPT ![abs_lines.list[i].attrib].N = v]
    /\ Wrote(i)
    /\ UNCHANGED <<all_wrest, abs_lines, lookups, singleVars, concVars>>

\* abs_lines[i].analy['wvlim'] = w
WriteAnalyWvlim(i, w) ==
    /\ CanWrite(i)
    /\ heap' = [heap EXCEPT ![abs_lines.list[i].analy].wvlim = w]
    /\ Wrote(i)
    /\ UNCHANGED <<all_wrest, abs_lines, lookups, singleVars, concVars>>

\* abs_lines[i].data['f'] = f
WriteDataF(i, f) ==
    /\ CanWrite(i)
    /\ heap' = [heap EXCEPT ![abs_lines.list[i].data].f = f]
    /\ Wrote(i)
    /\ UNCHANGED <<all_wrest, abs_lines, lookups, singleVars, concVars>>

\* abs_lines[i].analy['spec'] = s
WriteAnalySpec(i, s) ==
    /\ CanWrite(i)
    /\ heap' = [heap EXCEPT ![abs_lines.list[i].analy].spec = s]
    /\ Wrote(i)
    /\ UNCHANGED <<all_wrest, abs_lines, lookups, singleVars, concVars>>

\* the i-th returned object with its dicts read from the heap
Deref(hp, i) ==
    [ltype |-> abs_lines.list[i].ltype, wrest |-> abs_lines.list[i].wrest,
     trans |-> abs_lines.list[i].trans, data |-> hp[abs_lines.list[i].data],
     analy |-> hp[abs_lines.list[i].analy],
     attrib |-> hp[abs_lines.list[i].attrib]]

\* abs_lines[i].measure_ew()
MeasureEWOn(i, est) ==
    /\ CanWrite(i)
    /\ LET r == measure_ew(Deref(heap, i), spectrum, 1, est)
       IN  /\ heap' = [heap EXCEPT ![abs_lines.list[i].analy] = r.line.analy,
                                   ![abs_lines.list[i].attrib] = r.line.attrib]
           /\ spectrum' = r.spectrum
    /\ Wrote(i)
    /\ UNCHANGED <<all_wrest, abs_lines, lookups, llist, line, res, concVars>>

NextBulk ==
    \/ CallManyAbslines
    \/ \E i \in 1..MaxLen : WriteAttribN(i, 13)
    \/ \E i \in 1..MaxLen : WriteAnalyWvlim(i, <<120900, 121700>>)
    \/ \E i \in 1..MaxLen : WriteAnalySpec(i, TheSpec)
    \/ \E i \in 1..MaxLen : WriteDataF(i, 5000)
    \/ \E i \in 1..MaxLen, e \in EWOutputs : MeasureEWOn(i, e)

SpecBulk == InitBulk /\ [][NextBulk]_vars

----------------------------------------------------------------------------
(* Two cut_spec calls, on two lines that hold the same spectrum object, run in
   two threads: each statement of cut_spec that reads or writes the spectrum
   or the line is a step of its own *)

Threads == {1, 2}

\* a line as a caller prepares it for cut_spec
PreparedLine(trans, z, w) ==
    [AbsLine(trans, [closest |-> FALSE], FALSE, z).line
        EXCEPT !.analy.spec = TheSpec, !.analy.wvlim = w]

PreparedLines ==
    {PreparedLine(trans, z, w) : trans \in CatalogWrest, z \in ZSet,
                                 w \in WvlimSet}

InitLocals(normalize) ==
    [normalize |-> normalize, err |-> NoError, pix |-> {}, fx |-> <<>>,
     sig |-> <<>>, wave |-> <<>>, velo |-> <<>>]

InitConc ==
    /\ llist = [closest |-> FALSE]
    /\ \E c \in BOOLEAN : spectrum = NewSpectrum(UnitAA, c)
    /\ lines \in [Threads -> PreparedLines]
    /\ pc = [t \in Threads |-> "select"]
    /\ \E n \in BOOLEAN : loc = [t \in Threads |-> InitLocals(n)]
    /\ line = Null
    /\ res = Result("init", NoError, <<>>)
    /\ UnusedBulk

\* lines 147-162: the checks, the pixel selection, analy['pix'] = pix
StepSelect(t) ==
    /\ pc[t] = "select"
    /\ LET sel == cut_spec_pix(lines[t], spectrum)
       IN  IF sel.err # NoError
           THEN /\ loc' = [loc EXCEPT ![t].err = sel.err]
                /\ pc' = [pc EXCEPT ![t] = "done"]
                /\ UNCHANGED lines
           ELSE /\ lines' = [lines EXCEPT ![t].analy.pix = Some(sel.pix)]
                /\ loc' = [loc EXCEPT ![t].pix = sel.pix]
                /\ pc' = [pc EXCEPT ![t] = "slice"]
    /\ UNCHANGED <<singleVars, bulkVars>>

\* lines 165-167: fx, sig, wave
StepSlice(t) ==
    /\ pc[t] = "slice"
    /\ LET sl == cut_spec_slices(spectrum, loc[t].pix)
       IN  loc' = [loc EXCEPT ![t].fx = sl.fx, ![t].sig = sl.sig,
                              ![t].wave = sl.wave]
    /\ pc' = [pc EXCEPT ![t] = "set_velo"]
    /\ UNCHANGED <<lines, singleVars, bulkVars>>

\* lines 170-171: self.analy['spec'].velo = ...
StepSetVelo(t) ==
    /\ pc[t] = "set_velo"
    /\ spectrum' = cut_spec_set_velo(lines[t], spectrum)
    /\ pc' = [pc EXCEPT ![t] = "get_velo"]
    /\ UNCHANGED <<lines, loc, llist, line, res, bulkVars>>

\* line 172: velo = self.analy['spec'].velo[pix]
StepGetVelo(t) ==
    /\ pc[t] = "get_velo"
    /\ loc' = [loc EXCEPT ![t].velo = cut_spec_get_velo(spectrum, loc[t].pix)]
    /\ pc' = [pc EXCEPT ![t] = "normalize"]
    /\ UNCHANGED <<lines, singleVars, bulkVars>>

\* lines 174-184: the normalisation and the return
StepNormalize(t) ==
    /\ pc[t] = "normalize"
    /\ LET nm == cut_spec_normalize(spectrum, loc[t].pix, loc[t].fx,
                                    loc[t].sig, loc[t].normalize)
       IN  loc' = [loc EXCEPT ![t].fx = nm.fx, ![t].sig = nm.sig]
    /\ pc' = [pc EXCEPT ![t] = "done"]
    /\ UNCHANGED <<lines, singleVars, bulkVars>>

NextConc ==
    \/ \E t \in Threads : StepSelect(t)
    \/ \E t \in Threads : StepSlice(t)
    \/ \E t \in Threads : StepSetVelo(t)
    \/ \E t \in Threads : StepGetVelo(t)
    \/ \E t \in Threads : StepNormalize(t)

SpecConc == InitConc /\ [][NextConc]_vars

----------------------------------------------------------------------------
(* Window extraction: the order of the checks *)

NoSpectrumAttached == ErrNeedSpectrum
UnitlessDispersion == ErrNeedUnit
NoWindowSpecified == ErrNeedWindow

\* the pixels of the wavelength interval, and of the velocity interval about
\* the line's redshifted rest wavelength
WavePixels == pix_minmax_wave(spectrum, line.analy.wvlim)
VelPixels ==
    pix_minmax_vel(spectrum, line.attrib.z, line.wrest, line.analy.vlim)

\* C3: cut_spec fails NoSpectrumAttached without a spectrum; else fails
\* UnitlessDispersion when the dispersion axis has no unit; else takes the
\* wavelength interval when it is not <<0, 0>>; else the velocity interval
\* when that is not <<0, 0>>; else fails NoWindowSpecified.  On success the
\* pixels stored in analy['pix'] are those of the interval taken.
C3_CutSpecOrder ==
    res.op = "cut_spec" =>
        IF line.analy.spec = None
        THEN res.err = NoSpectrumAttached
        ELSE IF spectrum.unit = Unitless
        THEN res.err = UnitlessDispersion
        ELSE IF line.analy.wvlim # <<0, 0>>
        THEN res.err = NoError /\ line.analy.pix = Some(WavePixels)
        ELSE IF line.analy.vlim # <<0, 0>>
        THEN res.err = NoError /\ line.analy.pix = Some(VelPixels)
        ELSE res.err = NoWindowSpecified

\* a successful cut_spec with both intervals set, whose pixels differ
C3_Witness ==
    /\ res.op = "cut_spec"
    /\ res.err = NoError
    /\ line.analy.wvlim # <<0, 0>>
    /\ line.analy.vlim # <<0, 0>>
    /\ WavePixels # VelPixels
    /\ line.analy.pix = Some(WavePixels)


----------------------------------------------------------------------------
(* Column density: the flag *)

\* attrib['flagN'] as measure_aodm sets it
Detection == 1
Saturated == 2
UpperLimit == 3

\* C4: after a measure_aodm that returned, N and sigN are the estimator's and
\* flagN is Saturated when the estimator reported saturation, whatever N, sigN
\* and nsig are; else Detection when N > nsig * sigN; else UpperLimit.  An
\* unsaturated N = 0 is an UpperLimit.
C4_FlagPolicy ==
    (res.op = "measure_aodm" /\ res.err = NoError) =>
        LET N == line.attrib.N
            sigN == line.attrib.sigN[1]
            sat == res.out.est.flg_sat
            nsig == res.out.nsig
        IN  /\ N = res.out.est.N
            /\ sigN = res.out.est.sigN
            /\ line.attrib.flagN =
                 IF sat THEN Saturated
                 ELSE IF N > nsig * sigN THEN Detection
                 ELSE UpperLimit
            /\ (~sat /\ N = 0) => line.attrib.flagN = UpperLimit

\* a saturated measurement whose N alone would have been a detection
C4_Witness ==
    /\ res.op = "measure_aodm"
    /\ res.err = NoError
    /\ res.out.est.flg_sat
    /\ line.attrib.N > res.out.nsig * line.attrib.sigN[1]
    /\ line.attrib.flagN = Saturated


----------------------------------------------------------------------------
(* Profile synthesis: the parameter checks *)

UninitializedProfileParameters == {ErrNeedN, ErrNeedB}
NoWavelengthSource == "You must provide a wavelength array in generate_voigt"

\* C5: generate_voigt fails UninitializedProfileParameters whenever N < 1 or
\* b < 1 km/s; with valid N and b, no wave argument and no spectrum it fails
\* with the error that says no wavelength array was provided; with valid N
\* and b and no wave argument but a spectrum it takes the spectrum's
\* dispersion axis as the grid.
C5_ProfileChecks ==
    res.op = "generate_voigt" =>
        IF line.attrib.N < 1 \/ line.attrib.b < 1
        THEN res.err \in UninitializedProfileParameters
        ELSE IF res.out.wave = Absent /\ line.analy.spec = None
        THEN /\ res.err # NoError
             /\ res.err \notin UninitializedProfileParameters
             /\ res.err[2] = NoWavelengthSource
        ELSE IF res.out.wave = Absent
        THEN res.err = NoError /\ res.out.grid = Some(spectrum.dispersion)
        ELSE res.err = NoError /\ res.out.grid = res.out.wave

----------------------------------------------------------------------------
(* Matching *)

\* the redshift passed to ismatch, as a pair or on a line
InputRedshift ==
    IF res.out.inp.kind = "line" THEN res.out.inp.line.attrib.z
    ELSE res.out.inp.z

\* everything a match asks for but the redshift: the wavelengths agree (to
\* 1e-5 relative), and the ion and the sky position agree where they apply
MatchButRedshift ==
    LET inp == res.out.inp
        isLine == inp.kind = "line"
        w == IF isLine THEN inp.line.wrest ELSE inp.wrest
        wOK == Abs(line.wrest - w) * 100000 <= Abs(w)
        ionOK == IF res.out.Zion # Absent
                 THEN <<line.data.Z, line.data.ion>> = res.out.Zion[1]
                 ELSE isLine => /\ line.data.Z = inp.line.data.Z
                                /\ line.data.ion = inp.line.data.ion
        skyOK == IF res.out.RADec # Absent
                 THEN Abs(res.out.RADec[1] - line.attrib.coord) < 100
                 ELSE isLine =>
                        Abs(inp.line.attrib.coord - line.attrib.coord) < 100
    IN  wOK /\ ionOK /\ skyOK

\* |a - b| <= 1e-6 |b|
ZAgreeRelative(a, b) == Abs(a - b) <= Abs(b) \div 1000000
\* |a - b| <= 1e-8 + 1e-6 |b|
ZAgreeAbsRel(a, b) == Abs(a - b) - 1 <= Abs(b) \div 1000000

\* C6 as stated: ismatch answers true exactly when the wavelengths agree, the
\* redshifts agree within relative tolerance 1e-6, and the ion and the sky
\* position agree where they apply.
C6_MatchRelative ==
    (res.op = "ismatch" /\ res.err = NoError) =>
        res.out.answer =
            (MatchButRedshift /\ ZAgreeRelative(line.attrib.z, InputRedshift))

\* C6 amended: the same, with the redshifts agreeing when they differ by at
\* most 1e-8 + 1e-6 |z| of the redshift passed in.
C6_MatchAbsRel ==
    (res.op = "ismatch" /\ res.err = NoError) =>
        res.out.answer =
            (MatchButRedshift /\ ZAgreeAbsRel(line.attrib.z, InputRedshift))

\* a match of a line at z = 0 with the pair (1e-8, its own wavelength)
C6_Witness ==
    /\ res.op = "ismatch"
    /\ res.err = NoError
    /\ res.out.inp.kind = "tuple"
    /\ res.out.inp.wrest = line.wrest
    /\ line.attrib.z = 0
    /\ res.out.inp.z = 1
    /\ res.out.answer

----------------------------------------------------------------------------
(* The attribute store *)

\* C7: after a measure_ew that returned, the EW uncertainty that construction
\* set to 0 (EWsig) holds the estimator's uncertainty and no other key holds
\* it; after a measure_aodm that returned, the same for the column-density
\* uncertainty (Nsig).
C7_OneUncertaintyField ==
    /\ (res.op = "measure_ew" /\ res.err = NoError) =>
          /\ line.attrib.EWsig = res.out.est[2]
          /\ line.attrib.sigEW = Absent
    /\ (res.op = "measure_aodm" /\ res.err = NoError) =>
          /\ line.attrib.Nsig = res.out.est.sigN
          /\ line.attrib.sigN = Absent

\* C8: constructing a line leaves the line list as it was, and cut_spec,
\* measure_ew, measure_restew and measure_aodm leave the spectrum as it was.
C8_CollaboratorsUnchanged ==
    [][/\ res'.op = "construct" => llist' = llist
       /\ res'.op \in {"cut_spec", "measure_ew", "measure_restew",
                       "measure_aodm"} => spectrum' = spectrum]_vars

EWFields(l) == <<l.attrib.EW, l.attrib.EWsig, l.attrib.sigEW>>
NFields(l) ==
    <<l.attrib.N, l.attrib.Nsig, l.attrib.sigN, l.attrib.flagN,
      l.attrib.logN, l.attrib.sig_logN>>

\* C10: on a constructed line the equivalent width and its uncertainty change
\* only in a measure_ew or measure_restew call, and the column density, its
\* uncertainty, its flag and its logarithm only in a measure_aodm call.
C10_NoImplicitRecompute ==
    [][line # Null =>
        /\ EWFields(line') # EWFields(line) =>
              res'.op \in {"measure_ew", "measure_restew"}
        /\ NFields(line') # NFields(line) => res'.op = "measure_aodm"]_vars

\* the redshift was just changed on a line that carries both measurements,
\* the equivalent width one taken in the observed frame
C10_Witness ==
    /\ res.op = "set_z"
    /\ line.attrib.z # 0
    /\ line.attrib.EW = 202
    /\ line.attrib.sigEW = Some(101)
    /\ line.attrib.logN # Absent


----------------------------------------------------------------------------
(* many_abslines: what it returns *)

\* the catalogue row of a wavelength
RowOf(w) == CHOOSE e \in Catalog : e.wrest = w

\* C1: for every input sequence, the empty one and those with repeats
\* included, many_abslines returns a list of the same length whose i-th entity
\* has the rest wavelength and the atomic data of the i-th input value, after
\* exactly one lookup per distinct input value.
C1_BuildMany ==
    (abs_lines.called /\ written.count = 0) =>
        /\ abs_lines.err = NoError
        /\ Len(abs_lines.list) = Len(all_wrest)
        /\ \A i \in DOMAIN abs_lines.list :
              /\ abs_lines.list[i].wrest = RowOf(all_wrest[i]).wrest
              /\ heap[abs_lines.list[i].data] = RowOf(all_wrest[i])
        /\ Len(lookups) = Cardinality(Range(all_wrest))
        /\ Range(lookups) = Range(all_wrest)

\* the dicts of the i-th returned entity
EntityState(hp, i) ==
    <<hp[abs_lines.list[i].attrib], hp[abs_lines.list[i].analy],
      hp[abs_lines.list[i].data]>>

\* C2: a write to attrib, analy or data of one returned entity leaves attrib,
\* analy and data of every other returned entity as they were.
C2_EntitiesIndependent ==
    [][\A i, j \in DOMAIN abs_lines.list :
          (written'.last = i /\ written'.count > written.count /\ j # i) =>
              EntityState(heap', j) = EntityState(heap, j)]_vars

\* the first of two entities built from the same wavelength has been given a
\* column density, and the second still has none
C2_Witness ==
    /\ abs_lines.called
    /\ Len(abs_lines.list) >= 2
    /\ all_wrest[1] = all_wrest[2]
    /\ written.last = 1
    /\ heap[abs_lines.list[1].attrib].N = 13
    /\ heap[abs_lines.list[2].attrib].N = 0


----------------------------------------------------------------------------
(* cut_spec in two threads on one spectrum *)

\* what thread t's call returned
Returned(t) ==
    [fx |-> loc[t].fx, sig |-> loc[t].sig, wave |-> loc[t].wave,
     velo |-> loc[t].velo]

\* what thread t's call does when no other call runs: cut_spec reads neither
\* analy['pix'] nor a velocity array left on the spectrum, so the call on the
\* line and spectrum as they are now is the call run alone
Alone(t) == cut_spec(lines[t], spectrum, loc[t].normalize)

\* C9: for every interleaving of two cut_spec calls on lines that hold the
\* same spectrum and have different redshifted rest wavelengths, each call
\* returns the flux, uncertainty, wavelength and velocity slices it returns
\* when run alone.
C9_ConcurrentCutSpec ==
    ObsWave(lines[1].wrest, lines[1].attrib.z)
        # ObsWave(lines[2].wrest, lines[2].attrib.z) =>
    \A t \in Threads :
        pc[t] = "done" =>
            /\ loc[t].err = Alone(t).err
            /\ loc[t].err = NoError => Returned(t) = Alone(t).ret


----------------------------------------------------------------------------
(* cut_spec: continuum normalisation *)

\* the call just made was cut_spec on a line whose spectrum, unit and window
\* pass the checks
CutSpecCallable ==
    /\ res.op = "cut_spec"
    /\ line # Null
    /\ line.analy.spec # None
    /\ spectrum.unit # Unitless
    /\ (line.analy.wvlim # <<0, 0>> \/ line.analy.vlim # <<0, 0>>)

\* the flux and the uncertainty at the selected pixels, as stored on the
\* spectrum and as divided by the continuum
RawFlux == Slice(spectrum.flux, line.analy.pix[1])
RawSig == Slice(spectrum.sig, line.analy.pix[1])
NormFlux ==
    [i \in line.analy.pix[1] |-> spectrum.flux[i] \div spectrum.conti[1][i]]
NormSig ==
    [i \in line.analy.pix[1] |-> spectrum.sig[i] \div spectrum.conti[1][i]]

\* C11: a cut_spec call that passes the checks raises no error whatever
\* normalize and the continuum are.  With normalize true and a continuum on
\* the spectrum, the returned flux and the returned uncertainty are both
\* divided by the continuum at the selected pixels; with normalize true and
\* no continuum both are returned undivided; with normalize false both are
\* returned undivided.
C11_NormaliseAllOrNothing ==
    CutSpecCallable =>
        /\ res.err = NoError
        /\ IF res.out.normalize /\ spectrum.conti # Absent
           THEN /\ res.out.ret.fx = NormFlux
                /\ res.out.ret.sig = NormSig
           ELSE /\ res.out.ret.fx = RawFlux
                /\ res.out.ret.sig = RawSig

\* normalisation was asked for on a spectrum without continuum, and the call
\* returned the flux and the uncertainty of a non-empty window as stored
C11_Witness ==
    /\ CutSpecCallable
    /\ res.err = NoError
    /\ res.out.normalize
    /\ spectrum.conti = Absent
    /\ line.analy.pix[1] # {}
    /\ res.out.ret.fx = RawFlux
    /\ res.out.ret.sig = RawSig

\* normalisation was asked for on a spectrum with a continuum, and the call
\* returned a flux and an uncertainty that both differ from the stored ones
C11_WitnessDivided ==
    /\ CutSpecCallable
    /\ res.err = NoError
    /\ res.out.normalize
    /\ spectrum.conti # Absent
    /\ res.out.ret.fx # RawFlux
    /\ res.out.ret.sig # RawSig

====
